---- MODULE Spec2Model ----
(***************************************************************************)
(* MemCapture: the metric lifecycle (StartCollection / StopCollection /    *)
(* SaveResults), the collection worker of ProcessMetric and MemoryMetric,  *)
(* main's control flow with its signal handler, and the post-collection    *)
(* deduplication of ProcessMetric.                                         *)
(***************************************************************************)
EXTENDS Integers, Sequences, FiniteSets, TLC

VARIABLES
    monoNow,            \* CLOCK_MONOTONIC, in seconds
    wallSkew,           \* CLOCK_REALTIME minus CLOCK_MONOTONIC
    stdCvClock,         \* clock std::condition_variable::wait_for waits on in this build
    procfs,             \* /proc: pid -> the process running under it, or NoProc
    mQuit,              \* per metric: the stop flag
    mLock,              \* per metric: owner of the metric mutex
    mCollectionThread,  \* per metric: the worker the std::thread member holds (0: not joinable)
    thread,             \* per metric, per worker: its position in CollectData and its locals
    mMeasurements,      \* ProcessMetric: the result set
    memoryPoints,       \* MemoryMetric: data points recorded per collector function
    caller,             \* the thread that calls the metric API: position and metric
    starts,             \* per metric: StartCollection calls so far
    spurious,           \* spurious condition-variable wake-ups so far
    terminated,         \* std::terminate has been called
    mainPc,             \* main(): position
    gEarlyTermination,  \* main.cpp: set by the signal handler
    gStop,              \* main.cpp: state of main's timed wait on gStop
    signals,            \* signals delivered so far
    hist,               \* history: what the metric API has returned / observed
    accumulator,        \* a Measurement and the values added to it so far
    meminfo,            \* /proc/meminfo: unreadable, or field -> kB
    memInfo,            \* the MemInfo object made of it
    buddyinfo,          \* /proc/buddyinfo: the tokens of its zone line
    mMemoryFragmentation, \* MemoryMetric: zone -> per order, the data points recorded
    fragPasses,         \* CalculateFragmentation calls so far
    fault,              \* the signal that has killed the process, or none
    cmaDir,             \* /sys/kernel/debug/cma: readable or not, and its entries in iteration order
    mCmaMeasurements,   \* MemoryMetric: region name -> sizeKb, Used, Unused
    mCmaFree,           \* MemoryMetric: the 'CMA Free' measurement and the values added
    mCmaBorrowed,       \* MemoryMetric: the 'CMA Borrowed by Kernel' measurement and the values added
    cmaPasses,          \* GetCmaMemoryUsage calls so far
    procSmaps,          \* /proc/<pid>/smaps and smaps_rollup of one process, and the mappings behind them
    smapsFull,          \* the Smaps object parseSmaps has filled
    smapsRollup         \* the Smaps object parseSmapsRollup has filled

vars == <<monoNow, wallSkew, stdCvClock, procfs, mQuit, mLock, mCollectionThread,
          thread, mMeasurements, memoryPoints, caller, starts, spurious,
          terminated, mainPc, gEarlyTermination, gStop, signals, hist,
          accumulator, meminfo, memInfo, buddyinfo, mMemoryFragmentation, fragPasses,
          fault,
          cmaDir,
          mCmaMeasurements,
          mCmaFree,
          mCmaBorrowed,
          cmaPasses,
          procSmaps,
          smapsFull,
          smapsRollup>>

(***************************************************************************)
(* Bounds of the model                                                     *)
(***************************************************************************)
MaxTime == 3
MaxJump == 1
MaxStarts == 2
MaxSpurious == 1
MaxSignals == 1
Duration == 2

(***************************************************************************)
(* Program constants                                                       *)
(***************************************************************************)
Frequency == 3
zramCompressionRatio == 0

Metrics == {"ProcessMetric", "MemoryMetric"}
Workers == 1..MaxStarts
Pids == {1, 2, 3}
Clocks == {"monotonic", "realtime"}

(***************************************************************************)
(* /proc                                                                   *)
(***************************************************************************)
NoSmaps == [Rss |-> 0, Pss |-> 0, Swap |-> 0, SwapPss |-> 0, Locked |-> 0, Vss |-> 0, Uss |-> 0]

NoProc == [cmdline |-> "", ppid |-> 0, smaps |-> NoSmaps]

\* what /proc shows of a running "sleep 10" started by pid 1
SleepProc ==
    [cmdline |-> "sleep 10", ppid |-> 1,
     smaps |-> [Rss |-> 3, Pss |-> 2, Swap |-> 1, SwapPss |-> 1, Locked |-> 0,
                Vss |-> 5, Uss |-> 1]]

\* what /proc shows of a running "cat" started by pid 1
CatProc ==
    [cmdline |-> "cat", ppid |-> 1,
     smaps |-> [Rss |-> 2, Pss |-> 1, Swap |-> 0, SwapPss |-> 0, Locked |-> 0,
                Vss |-> 3, Uss |-> 1]]

\* the processes running when the program starts; pid 3 is free
InitialProcfs ==
    [p \in Pids |->
        IF p = 1
        THEN [cmdline |-> "sh run.sh", ppid |-> 0,
              smaps |-> [Rss |-> 4, Pss |-> 4, Swap |-> 0, SwapPss |-> 0, Locked |-> 1,
                         Vss |-> 6, Uss |-> 2]]
        ELSE IF p = 2 THEN SleepProc ELSE NoProc]

(***************************************************************************)
(* Measurement.  mMin starts at DBL_MAX and mMax at DBL_MIN (the smallest  *)
(* positive double); mMinInit / mMaxInit say the field still holds it.     *)
(* Data points are whole numbers of kB.                                    *)
(***************************************************************************)
Measurement ==
    [mCount |-> 0, mMinInit |-> TRUE, mMin |-> 0, mMaxInit |-> TRUE, mMax |-> 0, mTotal |-> 0]

\* faulty variant: only the first data point sets the minimum
AddDataPointFirstMin(M, value) ==
    [mCount   |-> M.mCount + 1,
     mMinInit |-> FALSE,
     mMin     |-> IF M.mMinInit THEN value ELSE M.mMin,
     mMaxInit |-> M.mMaxInit /\ value < 1,
     mMax     |-> IF (IF M.mMaxInit THEN value >= 1 ELSE value > M.mMax) THEN value ELSE M.mMax,
     mTotal   |-> M.mTotal + value]

\* Measurement::AddDataPoint
AddDataPoint(M, value) ==
    LET lower == M.mMinInit \/ value < M.mMin
        higher == IF M.mMaxInit THEN value >= 1 ELSE value > M.mMax
    IN  [mCount   |-> M.mCount + 1,
         mMinInit |-> FALSE,
         mMin     |-> IF lower THEN value ELSE M.mMin,
         mMaxInit |-> M.mMaxInit /\ ~higher,
         mMax     |-> IF higher THEN value ELSE M.mMax,
         mTotal   |-> M.mTotal + value]

\* (int) std::round(mTotal / mCount): halves round away from zero
GetAverageRounded(M) ==
    IF M.mCount = 0 THEN 0
    ELSE IF M.mTotal >= 0
         THEN (2 * M.mTotal + M.mCount) \div (2 * M.mCount)
         ELSE -((2 * (-M.mTotal) + M.mCount) \div (2 * M.mCount))

(***************************************************************************)
(* Process                                                                 *)
(***************************************************************************)
NoProcess == [mPid |-> 0, mPpid |-> 0, mName |-> "", mCmdline |-> "", mDead |-> FALSE]

\* Process::Process(pid): the cmdline and status files of /proc/<pid> as they are now
Process(pid) ==
    [mPid |-> pid, mPpid |-> procfs[pid].ppid, mName |-> procfs[pid].cmdline,
     mCmdline |-> procfs[pid].cmdline, mDead |-> FALSE]

\* faulty variant: identities are compared by pid alone
ProcessEqByPid(a, b) == a.mPid = b.mPid

\* Process::operator==
ProcessEq(a, b) == a.mPid = b.mPid /\ a.mCmdline = b.mCmdline

\* faulty variant: the flag follows /proc also once dead
updateAliveStatusRevives(P) == [P EXCEPT !.mDead = (procfs[P.mPid] = NoProc)]

\* Process::updateAliveStatus: once dead, stay dead; else dead when /proc/<pid> is gone
updateAliveStatus(P) ==
    IF P.mDead THEN P
    ELSE [P EXCEPT !.mDead = (procfs[P.mPid] = NoProc)]

(***************************************************************************)
(* Procrank                                                                *)
(***************************************************************************)
getRunningProcesses == {p \in Pids : procfs[p] # NoProc}

\* Smaps(pid) as read now: all zero when the files of the pid are gone
getProcessMemoryUsage(P) ==
    LET s == procfs[P.mPid].smaps
    IN  [process |-> P, vss |-> s.Vss, rss |-> s.Rss, pss |-> s.Pss, uss |-> s.Uss,
         locked |-> s.Locked, swap |-> s.Swap, swap_pss |-> s.SwapPss,
         swap_zram |-> s.SwapPss * zramCompressionRatio]

(***************************************************************************)
(* ProcessMetric: the result set.  mMeasurements is a vector whose order   *)
(* is observed only by the unstable sorts of SaveResults; it is kept as    *)
(* the set of its elements.                                                *)
(***************************************************************************)
processMeasurement(u) ==
    [ProcessInfo |-> u.process,
     Pss      |-> AddDataPoint(Measurement, u.pss),
     Rss      |-> AddDataPoint(Measurement, u.rss),
     Uss      |-> AddDataPoint(Measurement, u.uss),
     Vss      |-> AddDataPoint(Measurement, u.vss),
     Swap     |-> AddDataPoint(Measurement, u.swap),
     SwapPss  |-> AddDataPoint(Measurement, u.swap_pss),
     SwapZram |-> AddDataPoint(Measurement, u.swap_zram),
     Locked   |-> AddDataPoint(Measurement, u.locked)]

\* faulty variant: the Locked accumulator of an entry seen before is left out
AddSampleWithoutLocked(e, u) ==
    [ProcessInfo |-> e.ProcessInfo,
     Pss      |-> AddDataPoint(e.Pss, u.pss),
     Rss      |-> AddDataPoint(e.Rss, u.rss),
     Uss      |-> AddDataPoint(e.Uss, u.uss),
     Vss      |-> AddDataPoint(e.Vss, u.vss),
     Swap     |-> AddDataPoint(e.Swap, u.swap),
     SwapPss  |-> AddDataPoint(e.SwapPss, u.swap_pss),
     SwapZram |-> AddDataPoint(e.SwapZram, u.swap_zram),
     Locked   |-> e.Locked]

\* CollectData: the data points added to an entry seen before
AddSample(e, u) ==
    [ProcessInfo |-> e.ProcessInfo,
     Pss      |-> AddDataPoint(e.Pss, u.pss),
     Rss      |-> AddDataPoint(e.Rss, u.rss),
     Uss      |-> AddDataPoint(e.Uss, u.uss),
     Vss      |-> AddDataPoint(e.Vss, u.vss),
     Swap     |-> AddDataPoint(e.Swap, u.swap),
     SwapPss  |-> AddDataPoint(e.SwapPss, u.swap_pss),
     SwapZram |-> AddDataPoint(e.SwapZram, u.swap_zram),
     Locked   |-> AddDataPoint(e.Locked, u.locked)]

\* one iteration of the loop over processMemory in CollectData
RecordMeasurement(meas, u) ==
    LET seen == {e \in meas : ProcessEq(e.ProcessInfo, u.process)}
    IN  IF seen = {} THEN meas \cup {processMeasurement(u)}
        ELSE LET e == CHOOSE x \in seen : TRUE
             IN  (meas \ {e}) \cup {AddSample(e, u)}

\* faulty variant: entries found dead are dropped from the result set
UpdateAliveFlagsDropsDead(meas) ==
    {e \in meas : ~updateAliveStatus(e.ProcessInfo).mDead}

\* CollectData: for (process: mMeasurements) process.ProcessInfo.updateAliveStatus()
UpdateAliveFlags(meas) ==
    {[e EXCEPT !.ProcessInfo = updateAliveStatus(e.ProcessInfo)] : e \in meas}

(***************************************************************************)
(* MemoryMetric: the collector functions one pass calls, in order          *)
(* (the platform is the default, AMLOGIC, so GetBroadcomBmemUsage is not   *)
(* among them)                                                             *)
(***************************************************************************)
Collectors ==
    <<"GetLinuxMemoryUsage", "GetCmaMemoryUsage", "GetGpuMemoryUsage",
      "GetContainerMemoryUsage", "GetMemoryBandwidth", "CalculateFragmentation">>

CollectorNames == {Collectors[i] : i \in 1..Len(Collectors)}

(***************************************************************************)
(* Clocks and condition variables                                          *)
(***************************************************************************)
wallNow == monoNow + wallSkew

ClockNow(clock) == IF clock = "monotonic" THEN monoNow ELSE wallNow

\* ConditionVariable::calcTimeoutAbs: an absolute time on CLOCK_MONOTONIC
calcTimeoutAbs(rel_time) == monoNow + rel_time

\* std::condition_variable::wait_for: an absolute time on the clock the build waits on
StdWaitDeadline(rel_time) == ClockNow(stdCvClock) + rel_time

StdWaitTimedOut(t) == ClockNow(stdCvClock) >= t.deadline

\* the clock main's wait on gStop is measured on
gStopClock == "monotonic"

gStopTimedOut == ClockNow(gStopClock) >= gStop.deadline

(***************************************************************************)
(* Worker threads                                                          *)
(***************************************************************************)
NoThread ==
    [pc |-> "none", pids |-> {}, process |-> NoProcess, processMemory |-> <<>>,
     deadline |-> 0, waitStart |-> 0, wake |-> "none"]

Min(S) == CHOOSE x \in S : \A y \in S : x <= y

PassPcs == {"collect", "read", "smaps", "record", "alive", "wait_for"}

InPass(m, w) == thread[m][w].pc \in PassPcs

\* faulty variant: the lock excludes nobody
CanLockHeld(m) == TRUE

\* std::mutex: a thread takes it when no thread holds it
CanLock(m) == mLock[m] = 0

\* faulty variant: the notification wakes nobody
notify_lost(m) == thread[m]

\* pthread_cond_broadcast / notify_all: every thread blocked on the metric's mCv wakes
notify_all(m) ==
    [w \in Workers |->
        IF thread[m][w].pc = "waiting"
        THEN [thread[m][w] EXCEPT !.pc = "woken", !.wake = "notify"]
        ELSE thread[m][w]]

\* faulty variant: the samples read are not recorded
AfterReadSkipsRecord(pidsLeft, processMemory) ==
    IF pidsLeft # {} THEN "read" ELSE "alive"

\* where GetMemoryUsage and the loop over its result go next
AfterRead(pidsLeft, processMemory) ==
    IF pidsLeft # {} THEN "read"
    ELSE IF processMemory # <<>> THEN "record" ELSE "alive"

unchangedParsers ==
    UNCHANGED <<accumulator, meminfo, memInfo, buddyinfo, mMemoryFragmentation, fragPasses,
                fault,
                cmaDir,
                mCmaMeasurements,
                mCmaFree,
                mCmaBorrowed,
                cmaPasses,
                procSmaps,
                smapsFull,
                smapsRollup>>
unchangedEnv == UNCHANGED <<monoNow, wallSkew, stdCvClock, procfs>> /\ unchangedParsers
unchangedMain == UNCHANGED <<mainPc, gEarlyTermination, gStop, signals>>
unchangedCaller == UNCHANGED <<caller, starts, terminated, hist, mCollectionThread>>

\* faulty variant: the flag is read before the first pass (while instead of do-while)
WorkerLockChecksFlag(m, w) ==
    /\ ~terminated
    /\ thread[m][w].pc = "spawned"
    /\ CanLock(m)
    /\ mLock' = [mLock EXCEPT ![m] = w]
    /\ thread' = [thread EXCEPT ![m][w].pc = IF mQuit[m] THEN "check" ELSE "collect"]
    /\ UNCHANGED <<mQuit, mMeasurements, memoryPoints, spurious>>
    /\ unchangedEnv /\ unchangedMain /\ unchangedCaller

\* CollectData: std::unique_lock<std::mutex> lock(mLock)
WorkerLock(m, w) ==
    /\ ~terminated
    /\ thread[m][w].pc = "spawned"
    /\ CanLock(m)
    /\ mLock' = [mLock EXCEPT ![m] = w]
    /\ thread' = [thread EXCEPT ![m][w].pc = "collect"]
    /\ UNCHANGED <<mQuit, mMeasurements, memoryPoints, spurious>>
    /\ unchangedEnv /\ unchangedMain /\ unchangedCaller

\* Procrank::GetMemoryUsage: the pids of /proc
ProcessEnumerate(w) ==
    LET m == "ProcessMetric"
        pids == getRunningProcesses
    IN  /\ ~terminated
        /\ thread[m][w].pc = "collect"
        /\ thread' = [thread EXCEPT ![m][w].pids = pids,
                                    ![m][w].pc = AfterRead(pids, <<>>)]
        /\ UNCHANGED <<mQuit, mLock, mMeasurements, memoryPoints, spurious>>
        /\ unchangedEnv /\ unchangedMain /\ unchangedCaller

\* Procrank::GetMemoryUsage: Process process(pid); if (process.name().empty()) continue
ProcessConstruct(w) ==
    LET m == "ProcessMetric"
        t == thread[m][w]
        pid == Min(t.pids)
        P == Process(pid)
    IN  /\ ~terminated
        /\ t.pc = "read"
        /\ thread' = [thread EXCEPT ![m][w] =
              IF P.mName = ""
              THEN [t EXCEPT !.pids = t.pids \ {pid},
                             !.pc = AfterRead(t.pids \ {pid}, t.processMemory)]
              ELSE [t EXCEPT !.process = P, !.pc = "smaps"]]
        /\ UNCHANGED <<mQuit, mLock, mMeasurements, memoryPoints, spurious>>
        /\ unchangedEnv /\ unchangedMain /\ unchangedCaller

\* Procrank::GetMemoryUsage: memoryUsage.emplace_back(getProcessMemoryUsage(process))
ProcessReadSmaps(w) ==
    LET m == "ProcessMetric"
        t == thread[m][w]
        left == t.pids \ {t.process.mPid}
        usage == Append(t.processMemory, getProcessMemoryUsage(t.process))
    IN  /\ ~terminated
        /\ t.pc = "smaps"
        /\ thread' = [thread EXCEPT ![m][w] =
              [t EXCEPT !.pids = left, !.process = NoProcess, !.processMemory = usage,
                        !.pc = AfterRead(left, usage)]]
        /\ UNCHANGED <<mQuit, mLock, mMeasurements, memoryPoints, spurious>>
        /\ unchangedEnv /\ unchangedMain /\ unchangedCaller

\* CollectData: one iteration of for (procrankMeasurement: processMemory)
ProcessRecord(w) ==
    LET m == "ProcessMetric"
        t == thread[m][w]
    IN  /\ ~terminated
        /\ t.pc = "record"
        /\ mMeasurements' = RecordMeasurement(mMeasurements, Head(t.processMemory))
        /\ thread' = [thread EXCEPT ![m][w] =
              [t EXCEPT !.processMemory = Tail(t.processMemory),
                        !.pc = AfterRead({}, Tail(t.processMemory))]]
        /\ UNCHANGED <<mQuit, mLock, memoryPoints, spurious>>
        /\ unchangedEnv /\ unchangedMain /\ unchangedCaller

\* CollectData: for (process: mMeasurements) process.ProcessInfo.updateAliveStatus()
ProcessUpdateAlive(w) ==
    LET m == "ProcessMetric"
    IN  /\ ~terminated
        /\ thread[m][w].pc = "alive"
        /\ mMeasurements' = UpdateAliveFlags(mMeasurements)
        /\ thread' = [thread EXCEPT ![m][w].pc = "wait_for"]
        /\ UNCHANGED <<mQuit, mLock, memoryPoints, spurious>>
        /\ unchangedEnv /\ unchangedMain /\ unchangedCaller

\* MemoryMetric::CollectData: one pass, every collector function recording its data points
\* (they touch only the metric's own maps, which no other thread reads during a pass)
MemoryCollect(w) ==
    LET m == "MemoryMetric"
    IN  /\ ~terminated
        /\ thread[m][w].pc = "collect"
        /\ memoryPoints' = [f \in CollectorNames |-> memoryPoints[f] + 1]
        /\ thread' = [thread EXCEPT ![m][w].pc = "wait_for"]
        /\ UNCHANGED <<mQuit, mLock, mMeasurements, spurious>>
        /\ unchangedEnv /\ unchangedMain /\ unchangedCaller

\* CollectData: mCv.wait_for(lock, frequency) releases the lock and blocks
WaitFor(m, w) ==
    /\ ~terminated
    /\ thread[m][w].pc = "wait_for"
    /\ mLock' = [mLock EXCEPT ![m] = 0]
    /\ thread' = [thread EXCEPT ![m][w].pc = "waiting",
                                ![m][w].deadline = StdWaitDeadline(Frequency),
                                ![m][w].waitStart = monoNow,
                                ![m][w].wake = "none"]
    /\ UNCHANGED <<mQuit, mMeasurements, memoryPoints, spurious>>
    /\ unchangedEnv /\ unchangedMain /\ unchangedCaller

\* wait_for: the timeout passes on the clock the wait is measured on
WaitTimeout(m, w) ==
    /\ ~terminated
    /\ thread[m][w].pc = "waiting"
    /\ StdWaitTimedOut(thread[m][w])
    /\ thread' = [thread EXCEPT ![m][w].pc = "woken", ![m][w].wake = "timeout"]
    /\ UNCHANGED <<mQuit, mLock, mMeasurements, memoryPoints, spurious>>
    /\ unchangedEnv /\ unchangedMain /\ unchangedCaller

\* wait_for: the condition variable wakes without a notification or a timeout
WaitSpurious(m, w) ==
    /\ ~terminated
    /\ thread[m][w].pc = "waiting"
    /\ spurious < MaxSpurious
    /\ spurious' = spurious + 1
    /\ thread' = [thread EXCEPT ![m][w].pc = "woken", ![m][w].wake = "spurious"]
    /\ UNCHANGED <<mQuit, mLock, mMeasurements, memoryPoints>>
    /\ unchangedEnv /\ unchangedMain /\ unchangedCaller

\* wait_for returns: the lock is taken again
WaitRelock(m, w) ==
    /\ ~terminated
    /\ thread[m][w].pc = "woken"
    /\ CanLock(m)
    /\ mLock' = [mLock EXCEPT ![m] = w]
    /\ thread' = [thread EXCEPT ![m][w].pc = "check",
                                ![m][w].deadline = 0,
                                ![m][w].waitStart = 0]
    /\ UNCHANGED <<mQuit, mMeasurements, memoryPoints, spurious>>
    /\ unchangedEnv /\ unchangedMain /\ unchangedCaller

\* CollectData: while (!mQuit); the lock is released when the function returns
LoopCondition(m, w) ==
    /\ ~terminated
    /\ thread[m][w].pc = "check"
    /\ IF mQuit[m]
       THEN /\ thread' = [thread EXCEPT ![m][w].pc = "done", ![m][w].wake = "none"]
            /\ mLock' = [mLock EXCEPT ![m] = 0]
       ELSE /\ thread' = [thread EXCEPT ![m][w].pc = "collect", ![m][w].wake = "none"]
            /\ UNCHANGED mLock
    /\ UNCHANGED <<mQuit, mMeasurements, memoryPoints, spurious>>
    /\ unchangedEnv /\ unchangedMain /\ unchangedCaller

(***************************************************************************)
(* The metric API, called from one thread                                  *)
(***************************************************************************)
Idle == [pc |-> "idle", metric |-> "", worker |-> 0]

\* StartCollection: mQuit = false; std::thread(&CollectData, this, frequency) starts a worker
StartCollection(m) ==
    LET w == starts[m] + 1
    IN  /\ ~terminated
        /\ caller.pc = "idle"
        /\ starts[m] < MaxStarts
        /\ starts' = [starts EXCEPT ![m] = w]
        /\ mQuit' = [mQuit EXCEPT ![m] = FALSE]
        /\ thread' = [thread EXCEPT ![m][w].pc = "spawned"]
        /\ caller' = [pc |-> "start_assign", metric |-> m, worker |-> w]
        /\ hist' = [hist EXCEPT !.stopped[m] = FALSE,
                                !.doubleStart[m] = @ \/ mCollectionThread[m] # 0]
        /\ UNCHANGED <<mLock, mCollectionThread, mMeasurements, memoryPoints, spurious,
                       terminated, gEarlyTermination, gStop, signals>>
        /\ unchangedEnv

\* StartCollection: mCollectionThread = <the new thread>; std::thread's move assignment
\* calls std::terminate when the member still holds a joinable thread
StartAssign ==
    LET m == caller.metric
    IN  /\ ~terminated
        /\ caller.pc = "start_assign"
        /\ IF mCollectionThread[m] # 0
           THEN /\ terminated' = TRUE
                /\ UNCHANGED <<mCollectionThread, caller>>
           ELSE /\ mCollectionThread' = [mCollectionThread EXCEPT ![m] = caller.worker]
                /\ caller' = Idle
                /\ UNCHANGED terminated
        /\ UNCHANGED <<mQuit, mLock, thread, mMeasurements, memoryPoints, starts, spurious, hist>>
        /\ unchangedEnv /\ unchangedMain

\* StopCollection is called: std::unique_lock<std::mutex> locker(mLock) blocks for the lock
StopCollection(m) ==
    /\ ~terminated
    /\ caller.pc = "idle"
    /\ caller' = [pc |-> "stop_lock", metric |-> m, worker |-> 0]
    /\ UNCHANGED <<mQuit, mLock, mCollectionThread, thread, mMeasurements, memoryPoints,
                   starts, spurious, terminated, hist, gEarlyTermination, gStop, signals>>
    /\ unchangedEnv

\* faulty variant: StopCollection notifies without setting the flag
StopNotifyKeepsFlag ==
    LET m == caller.metric
    IN  /\ ~terminated
        /\ caller.pc = "stop_lock"
        /\ CanLock(m)
        /\ thread' = [thread EXCEPT ![m] = notify_all(m)]
        /\ caller' = [caller EXCEPT !.pc = "stop_join"]
        /\ UNCHANGED <<mQuit, mLock, mCollectionThread, mMeasurements, memoryPoints, starts,
                       spurious, terminated, hist>>
        /\ unchangedEnv /\ unchangedMain

\* StopCollection: mQuit = true; mCv.notify_all(); locker.unlock()
StopNotify ==
    LET m == caller.metric
    IN  /\ ~terminated
        /\ caller.pc = "stop_lock"
        /\ CanLock(m)
        /\ mQuit' = [mQuit EXCEPT ![m] = TRUE]
        /\ thread' = [thread EXCEPT ![m] = notify_all(m)]
        /\ caller' = [caller EXCEPT !.pc = "stop_join"]
        /\ UNCHANGED <<mLock, mCollectionThread, mMeasurements, memoryPoints, starts,
                       spurious, terminated, hist>>
        /\ unchangedEnv /\ unchangedMain

\* mCollectionThread.joinable()
joinable(m) == mCollectionThread[m] # 0

\* faulty variant: join returns at once
JoinedAtOnce(m) == TRUE

\* mCollectionThread.join() returns once the worker's function has returned
Joined(m) == thread[m][mCollectionThread[m]].pc = "done"

\* StopCollection: if (mCollectionThread.joinable()) mCollectionThread.join(); return
StopJoin ==
    LET m == caller.metric
    IN  /\ ~terminated
        /\ caller.pc = "stop_join"
        /\ joinable(m) => Joined(m)
        /\ mCollectionThread' = [mCollectionThread EXCEPT ![m] = 0]
        /\ caller' = Idle
        /\ hist' = [hist EXCEPT !.stopped[m] = TRUE]
        /\ UNCHANGED <<mQuit, mLock, thread, mMeasurements, memoryPoints, starts,
                       spurious, terminated>>
        /\ unchangedEnv /\ unchangedMain

(***************************************************************************)
(* ProcessMetric::DeduplicateData                                          *)
(***************************************************************************)
\* the count_if of DeduplicateData: dead, same cmdline, same parent pid
IsDuplicateOf(x, e) ==
    /\ x.ProcessInfo.mDead
    /\ x.ProcessInfo.mCmdline = e.ProcessInfo.mCmdline
    /\ x.ProcessInfo.mPpid = e.ProcessInfo.mPpid

hasDuplicate(meas, e) == Cardinality({x \in meas : IsDuplicateOf(x, e)}) > 1

\* the key under which DeduplicateData files a duplicate in its map
DuplicateKey(e) == e.ProcessInfo.mCmdline

\* the map `duplicates`: key -> the dead measurements with a duplicate filed under it
duplicates(meas) ==
    LET dups == {e \in meas : e.ProcessInfo.mDead /\ hasDuplicate(meas, e)}
    IN  [k \in {DuplicateKey(e) : e \in dups} |-> {e \in dups : DuplicateKey(e) = k}]

\* the elements std::sort by GetAverageRounded may leave last: those with the highest value
SortedLast(d) ==
    {e \in d : \A x \in d : GetAverageRounded(x.Pss) <= GetAverageRounded(e.Pss)}

\* the result sets DeduplicateData may leave: per key every member but the popped one is
\* erased (by Process::operator==)
DeduplicateData(meas) ==
    LET dup == duplicates(meas)
        keep == [DOMAIN dup -> UNION {dup[k] : k \in DOMAIN dup}]
        valid == {f \in keep : \A k \in DOMAIN dup : f[k] \in SortedLast(dup[k])}
    IN  { {m \in meas :
            ~\E k \in DOMAIN dup : \E r \in dup[k] \ {f[k]} :
                ProcessEq(m.ProcessInfo, r.ProcessInfo)} : f \in valid }

\* SaveResults
SaveResults(m) ==
    /\ ~terminated
    /\ caller.pc = "idle"
    /\ ~hist.saved[m]
    /\ IF m = "ProcessMetric"
       THEN mMeasurements' \in DeduplicateData(mMeasurements)
       ELSE UNCHANGED mMeasurements
    /\ hist' = [hist EXCEPT !.saved[m] = TRUE]
    /\ UNCHANGED <<mQuit, mLock, mCollectionThread, thread, memoryPoints, caller, starts,
                   spurious, terminated, gEarlyTermination, gStop, signals>>
    /\ unchangedEnv

(***************************************************************************)
(* The environment: time, the wall clock, processes                        *)
(***************************************************************************)
Tick ==
    /\ ~terminated
    /\ monoNow < MaxTime
    /\ monoNow' = monoNow + 1
    /\ UNCHANGED <<wallSkew, stdCvClock, procfs, mQuit, mLock, thread,
                   mMeasurements, memoryPoints, spurious>>
    /\ unchangedMain /\ unchangedCaller /\ unchangedParsers

\* the wall clock is set (NTP): CLOCK_REALTIME jumps, CLOCK_MONOTONIC does not
WallClockJump ==
    /\ ~terminated
    /\ \E s \in (0 - MaxJump)..MaxJump :
          /\ s # wallSkew
          /\ wallSkew' = s
    /\ UNCHANGED <<monoNow, stdCvClock, procfs, mQuit, mLock, thread,
                   mMeasurements, memoryPoints, spurious>>
    /\ unchangedMain /\ unchangedCaller /\ unchangedParsers

ProcessExit ==
    /\ ~terminated
    /\ \E p \in Pids :
          /\ procfs[p] # NoProc
          /\ procfs' = [procfs EXCEPT ![p] = NoProc]
    /\ UNCHANGED <<monoNow, wallSkew, stdCvClock, mQuit, mLock, thread,
                   mMeasurements, memoryPoints, spurious>>
    /\ unchangedMain /\ unchangedCaller /\ unchangedParsers

\* pid 1 runs another process, one of images: the kernel gives it a free pid, which may
\* be the pid of a process that has exited
ProcessStart(images) ==
    /\ ~terminated
    /\ procfs[1] # NoProc
    /\ \E p \in Pids \ {1} :
          /\ procfs[p] = NoProc
          /\ \E image \in images : procfs' = [procfs EXCEPT ![p] = image]
    /\ UNCHANGED <<monoNow, wallSkew, stdCvClock, mQuit, mLock, thread,
                   mMeasurements, memoryPoints, spurious>>
    /\ unchangedMain /\ unchangedCaller /\ unchangedParsers

(***************************************************************************)
(* A Measurement on its own: data points are added to a fresh object       *)
(***************************************************************************)
MaxPoints == 4

\* the data points added: whole numbers, among them zero and negative ones
DataPoints == {0 - 3, 0, 2, 7}

NoAccumulator == [M |-> Measurement, values |-> <<>>]

\* accumulator.M.AddDataPoint(value)
MeasurementAdd ==
    /\ Len(accumulator.values) < MaxPoints
    /\ \E value \in DataPoints :
          accumulator' = [M |-> AddDataPoint(accumulator.M, value),
                          values |-> Append(accumulator.values, value)]
    /\ UNCHANGED <<monoNow, wallSkew, stdCvClock, procfs, mQuit, mLock, thread,
                   mMeasurements, memoryPoints, spurious,
                   meminfo, memInfo, buddyinfo, mMemoryFragmentation, fragPasses,
                   fault,
                   cmaDir,
                   mCmaMeasurements,
                   mCmaFree,
                   mCmaBorrowed,
                   cmaPasses,
                   procSmaps,
                   smapsFull,
                   smapsRollup>>
    /\ unchangedMain /\ unchangedCaller

(***************************************************************************)
(* MemInfo: /proc/meminfo and the object parsed from it                    *)
(***************************************************************************)
\* the kB values a field of the file takes
MemInfoKb == {0, 50, 100, 200, 1000}

\* the readable files: every field once; Slab is SReclaimable + SUnreclaim
MemInfoFiles ==
    {[MemTotal |-> t, MemFree |-> f, MemAvailable |-> f, Buffers |-> b, Cached |-> c,
      Slab |-> s[1], SReclaimable |-> s[2], SUnreclaim |-> s[1] - s[2],
      SwapTotal |-> 100, SwapFree |-> 50, CmaTotal |-> 200, CmaFree |-> 50] :
        t \in MemInfoKb, f \in MemInfoKb, b \in MemInfoKb, c \in MemInfoKb,
        s \in {x \in MemInfoKb \X MemInfoKb : x[2] <= x[1]}}

\* /proc/meminfo cannot be opened; a readable file f is <<f>>
Unreadable == <<>>

\* no MemInfo object yet; a constructed object o is <<o>>
NoMemInfo == <<>>

\* MemInfo::MemInfo(): the member initialisers
MemInfoDefaults ==
    [mTotal |-> 0, mFree |-> 0, mAvailable |-> 0, mUsed |-> 0, mBuffers |-> 0,
     mCached |-> 0, mSlab |-> 0, mSReclaimable |-> 0, mSUnreclaimable |-> 0,
     mSwapTotal |-> 0, mSwapFree |-> 0, mCmaTotal |-> 0, mCmaFree |-> 0]

\* parseMemInfo: the fields the line scan assigns (there is no branch for CmaFree)
MemInfoScan(file) ==
    [MemInfoDefaults EXCEPT
        !.mTotal = file.MemTotal, !.mFree = file.MemFree, !.mAvailable = file.MemAvailable,
        !.mBuffers = file.Buffers, !.mCached = file.Cached, !.mSlab = file.Slab,
        !.mSReclaimable = file.SReclaimable, !.mSUnreclaimable = file.SUnreclaim,
        !.mSwapTotal = file.SwapTotal, !.mSwapFree = file.SwapFree,
        !.mCmaTotal = file.CmaTotal]

\* faulty variant: the whole slab is taken off
MemUsedWholeSlab(o) == o.mTotal - (o.mFree + o.mBuffers + o.mCached + o.mSlab)

\* parseMemInfo: mUsed = mTotal - (mFree + mBuffers + mCached + mSReclaimable)
MemUsed(o) == o.mTotal - (o.mFree + o.mBuffers + o.mCached + o.mSReclaimable)

\* MemInfo::parseMemInfo
parseMemInfo(file) ==
    IF file = Unreadable THEN MemInfoDefaults
    ELSE LET o == MemInfoScan(file[1])
         IN  IF o.mTotal < o.mFree + o.mBuffers + o.mCached + o.mSlab THEN o
             ELSE [o EXCEPT !.mUsed = MemUsed(o)]

\* MemInfo memInfo;
MemInfoConstruct ==
    /\ memInfo = NoMemInfo
    /\ memInfo' = <<parseMemInfo(meminfo)>>
    /\ UNCHANGED <<monoNow, wallSkew, stdCvClock, procfs, mQuit, mLock, thread,
                   mMeasurements, memoryPoints, spurious,
                   accumulator, meminfo, buddyinfo, mMemoryFragmentation, fragPasses,
                   fault,
                   cmaDir,
                   mCmaMeasurements,
                   mCmaFree,
                   mCmaBorrowed,
                   cmaPasses,
                   procSmaps,
                   smapsFull,
                   smapsRollup>>
    /\ unchangedMain /\ unchangedCaller

(***************************************************************************)
(* /proc/buddyinfo and MemoryMetric::CalculateFragmentation                *)
(***************************************************************************)
\* the orders of a zone line whose free counts vary; the higher orders hold 0
FragOrders == 4

\* the collection passes that call CalculateFragmentation
MaxPasses == 2

\* columnCount of Platform::AMLOGIC: four leading segments and eleven orders
columnCount == 15

FreeCounts == {0, 10, 50, 100}

\* the zone lines: the lead segments "Node 0, zone Normal", of which the fourth is the
\* zone name, and the free counts; a full line has columnCount segments, a cut one has
\* the varying orders only
BuddyLines ==
    {[lead |-> 4, zone |-> "Normal", counts |-> a \o [k \in 1..(columnCount - 4 - FragOrders) |-> 0]] :
        a \in [1..FragOrders -> FreeCounts]}
    \cup {[lead |-> 4, zone |-> "Normal", counts |-> a] : a \in [1..FragOrders -> FreeCounts]}

\* the files of several lines
MaxLines == 2

\* the lines of those files: full lines of two zones, a line cut after four counts, and
\* lines that end within the lead segments (an empty line, a line of three segments)
ZoneLines ==
    {[lead |-> 4, zone |-> z, counts |-> a \o [k \in 1..(columnCount - 8) |-> 0]] :
        z \in {"DMA", "Normal"}, a \in {<<100, 50, 10, 0>>, <<10, 0, 0, 0>>}}
    \cup {[lead |-> 4, zone |-> z, counts |-> <<100, 50, 10, 0>>] : z \in {"DMA", "Normal"}}
    \cup {[lead |-> k, zone |-> "", counts |-> <<>>] : k \in {0, 3}}

\* segments.size(): the lead segments and one segment per count
segmentsSize(line) == line.lead + Len(line.counts)

\* std::string zoneName = segments[3] reads past the end of the vector
NoZoneName(line) == segmentsSize(line) < 4

\* the lines read before the first one without a fourth segment
RECURSIVE LinesBeforeFault(_)
LinesBeforeFault(lines) ==
    IF lines = <<>> \/ NoZoneName(Head(lines)) THEN <<>>
    ELSE <<Head(lines)>> \o LinesBeforeFault(Tail(lines))

\* what the read past the end does: the process is killed, or a string is made of the
\* bytes found there and the line fails the column test
segments3Outcomes(lines) ==
    IF \E k \in DOMAIN lines : NoZoneName(lines[k]) THEN {"none", "SIGSEGV"} ELSE {"none"}

\* the sum over the orders from..Len(counts)-1 of pow(2, order) * freePages[order]
RECURSIVE PagesFrom(_, _)
PagesFrom(counts, from) ==
    IF from >= Len(counts) THEN 0
    ELSE (2 ^ from) * counts[from + 1] + PagesFrom(counts, from + 1)

totalFreePages(counts) == PagesFrom(counts, 0)

\* fragPercentage = (totalFreePages - fragPercentage) / totalFreePages: a double, kept
\* as numerator and denominator; 0 / 0 (den = 0) is NaN
fragPercentage(counts, i) ==
    [num |-> totalFreePages(counts) - PagesFrom(counts, i),
     den |-> totalFreePages(counts)]

\* the update of mMemoryFragmentation for one line; of the Fragmentation measurement
\* the data points added are kept: fragmentationPercent[i] for a new zone,
\* fragmentationPercent[i] * 100 for a zone seen before
UpdateZone(map, line) ==
    LET counts == line.counts
        orders == 1..Len(counts)
    IN  IF segmentsSize(line) # columnCount THEN map
        ELSE IF line.zone \in DOMAIN map
             THEN [map EXCEPT ![line.zone] =
                      [i \in orders |->
                          [FreePages     |-> AddDataPoint(@[i].FreePages, counts[i]),
                           Fragmentation |->
                               LET f == fragPercentage(counts, i - 1)
                               IN  Append(@[i].Fragmentation,
                                          [num |-> f.num * 100, den |-> f.den])]]]
             ELSE map @@ (line.zone :>
                      [i \in orders |->
                          [FreePages     |-> AddDataPoint(Measurement, counts[i]),
                           Fragmentation |-> <<fragPercentage(counts, i - 1)>>]])

\* while (std::getline(buddyInfo, line)); no line when the file cannot be opened
RECURSIVE UpdateZones(_, _)
UpdateZones(map, lines) ==
    IF lines = <<>> THEN map
    ELSE UpdateZones(UpdateZone(map, Head(lines)), Tail(lines))

\* MemoryMetric::CalculateFragmentation, once per collection pass
CalculateFragmentation ==
    /\ fault = "none"
    /\ fragPasses < MaxPasses
    /\ fragPasses' = fragPasses + 1
    /\ \E outcome \in segments3Outcomes(buddyinfo) :
          /\ fault' = outcome
          /\ mMemoryFragmentation' =
                 UpdateZones(mMemoryFragmentation,
                             IF outcome = "none" THEN buddyinfo ELSE LinesBeforeFault(buddyinfo))
    /\ UNCHANGED <<monoNow, wallSkew, stdCvClock, procfs, mQuit, mLock, thread,
                   mMeasurements, memoryPoints, spurious,
                   accumulator, meminfo, memInfo, buddyinfo,
                   cmaDir,
                   mCmaMeasurements,
                   mCmaFree,
                   mCmaBorrowed,
                   cmaPasses,
                   procSmaps,
                   smapsFull,
                   smapsRollup>>
    /\ unchangedMain /\ unchangedCaller

(***************************************************************************)
(* /sys/kernel/debug/cma and MemoryMetric::GetCmaMemoryUsage               *)
(***************************************************************************)
\* sysconf(_SC_PAGESIZE)
mPageSize == 4096

\* mCmaNames of Platform::AMLOGIC
mCmaNames ==
    [dir \in {"cma-0", "cma-1", "cma-2", "cma-3", "cma-4", "cma-5", "cma-6"} |->
        CASE dir = "cma-0" -> "secmon_reserved"
          [] dir = "cma-1" -> "logo_reserved"
          [] dir = "cma-2" -> "codec_mm_cma"
          [] dir = "cma-3" -> "ion_cma_reserved"
          [] dir = "cma-4" -> "vdin1_cma_reserved"
          [] dir = "cma-5" -> "demod_cma_reserved"
          [] dir = "cma-6" -> "kernel_reserved"]

\* the directories met under /sys/kernel/debug/cma; the last has no name on this platform
CmaDirNames == {"cma-0", "cma-1", "cma-reserved"}

\* the directory cannot be opened
NoCmaDir == [readable |-> FALSE, entries |-> <<>>]

\* the readable directories: every order of every set of regions, a region having 2
\* pages in its count file and 0 or 1 in its used file
CmaDirs ==
    {[readable |-> TRUE, entries |-> e] :
        e \in {q \in UNION {[1..k -> [name : CmaDirNames, count : {2},
                                      used : {0, 1}]] : k \in 0..Cardinality(CmaDirNames)} :
                  \A i, j \in DOMAIN q : i # j => q[i].name # q[j].name}}

\* the meminfo files read by the pass
CmaMemInfoFiles ==
    {<<file>> : file \in {g \in MemInfoFiles :
                             /\ g.MemTotal = 1000 /\ g.MemFree = 200 /\ g.Buffers = 50
                             /\ g.Cached = 100 /\ g.Slab = 0}}

\* (pages * mPageSize) / (long double) 1024
PagesKb(pages) == (pages * mPageSize) \div 1024

\* a new accumulator record with its first value, or one more value
AddValue(acc, value) ==
    [M |-> AddDataPoint(acc.M, value), values |-> Append(acc.values, value)]

\* the body of the loop after the name has been found: add to measurements
AddCmaRegion(map, cmaName, countKb, usedKb) ==
    IF cmaName \in DOMAIN map
    THEN [map EXCEPT ![cmaName] =
             [sizeKb |-> countKb,
              Used   |-> AddDataPoint(@.Used, usedKb),
              Unused |-> AddDataPoint(@.Unused, countKb - usedKb)]]
    ELSE map @@ (cmaName :>
             [sizeKb |-> countKb,
              Used   |-> AddDataPoint(Measurement, usedKb),
              Unused |-> AddDataPoint(Measurement, countKb - usedKb)])

\* for (const auto &dirEntry: directory_iterator(...)): the totals are added to first,
\* and a directory without a name ends the loop (break)
RECURSIVE CmaLoop(_, _)
CmaLoop(st, entries) ==
    IF entries = <<>> THEN st
    ELSE LET e == Head(entries)
             countKb == PagesKb(e.count)
             usedKb == PagesKb(e.used)
             totals == [st EXCEPT !.cmaTotalKb = @ + countKb, !.cmaTotalUsed = @ + usedKb]
         IN  IF e.name \notin DOMAIN mCmaNames THEN totals
             ELSE CmaLoop([totals EXCEPT
                              !.map = AddCmaRegion(@, mCmaNames[e.name], countKb, usedKb)],
                          Tail(entries))

\* MemoryMetric::GetCmaMemoryUsage, once per collection pass
GetCmaMemoryUsage ==
    /\ cmaPasses < MaxPasses
    /\ cmaPasses' = cmaPasses + 1
    /\ IF cmaDir.readable
       THEN LET st == CmaLoop([map |-> mCmaMeasurements, cmaTotalKb |-> 0, cmaTotalUsed |-> 0],
                              cmaDir.entries)
                memInfoFile == parseMemInfo(meminfo)
                totalUnused == st.cmaTotalKb - st.cmaTotalUsed
            IN  /\ mCmaMeasurements' = st.map
                /\ mCmaFree' = AddValue(mCmaFree, memInfoFile.mCmaFree)
                /\ mCmaBorrowed' = AddValue(mCmaBorrowed, totalUnused - memInfoFile.mCmaFree)
       ELSE UNCHANGED <<mCmaMeasurements, mCmaFree, mCmaBorrowed>>
    /\ UNCHANGED <<monoNow, wallSkew, stdCvClock, procfs, mQuit, mLock, thread,
                   mMeasurements, memoryPoints, spurious,
                   accumulator, meminfo, memInfo, buddyinfo, mMemoryFragmentation,
                   fragPasses, fault, cmaDir,
                   procSmaps,
                   smapsFull,
                   smapsRollup>>
    /\ unchangedMain /\ unchangedCaller

(***************************************************************************)
(* Smaps: /proc/<pid>/smaps, /proc/<pid>/smaps_rollup and their parsers    *)
(***************************************************************************)
\* the mappings of a process
MaxBlocks == 2

Digits == <<"0", "1", "2", "3", "4", "5", "6", "7", "8", "9">>

\* the decimal digits of n, as the kernel prints them
RECURSIVE Decimal(_)
Decimal(n) == IF n < 10 THEN <<Digits[n + 1]>> ELSE Decimal(n \div 10) \o <<Digits[(n % 10) + 1]>>

\* a line "<name>: <n> kB": the key, then what follows it
KbLine(name, sep, n) ==
    [name |-> name, colon |-> TRUE, rest |-> sep \o Decimal(n) \o <<" ", "k", "B">>]

\* the kB values of one mapping
Blocks ==
    [Size : {12}, Rss : {0, 4, 12}, Pss : {0, 4}, Shared_Clean : {8}, Swap : {0, 4}]

\* the lines of one mapping in /proc/<pid>/smaps: the first line
\* "00400000-0040b000 r-xp ...", the keys, and the VmFlags line
BlockLines(b) ==
    <<[name |-> "00400000-0040b000", colon |-> FALSE, rest |-> <<" ", "r", "-", "x", "p">>],
      KbLine("Size", <<" ", " ">>, b.Size),
      KbLine("Rss", <<" ">>, b.Rss),
      KbLine("Pss", <<"\t">>, b.Pss),
      KbLine("Shared_Clean", <<" ">>, b.Shared_Clean),
      KbLine("Swap", <<" ">>, b.Swap),
      [name |-> "VmFlags", colon |-> TRUE, rest |-> <<" ", "r", "d">>]>>

RECURSIVE SmapsLines(_)
SmapsLines(blocks) ==
    IF blocks = <<>> THEN <<>> ELSE BlockLines(Head(blocks)) \o SmapsLines(Tail(blocks))

RECURSIVE BlockSum(_, _)
BlockSum(blocks, key) ==
    IF blocks = <<>> THEN 0 ELSE Head(blocks)[key] + BlockSum(Tail(blocks), key)

\* the lines of /proc/<pid>/smaps_rollup: every value is the sum over the mappings, and
\* Pss is followed by its breakdown
RollupLines(blocks) ==
    <<[name |-> "00400000-7ffd1000", colon |-> FALSE, rest |-> <<" ", "[", "r", "o", "l", "l", "u", "p", "]">>],
      KbLine("Rss", <<" ">>, BlockSum(blocks, "Rss")),
      KbLine("Pss", <<" ">>, BlockSum(blocks, "Pss")),
      KbLine("Pss_Anon", <<" ">>, BlockSum(blocks, "Pss")),
      KbLine("Shared_Clean", <<" ">>, BlockSum(blocks, "Shared_Clean")),
      KbLine("Swap", <<" ">>, BlockSum(blocks, "Swap"))>>

SmapsFiles(n) ==
    {[blocks |-> b, smaps |-> SmapsLines(b), rollup |-> RollupLines(b)] : b \in UNION {[1..k -> Blocks] : k \in 0..n}}

NoSmapsFiles == [blocks |-> <<>>, smaps |-> <<>>, rollup |-> <<>>]

\* Smaps::Smaps: the member initialisers
SmapsDefaults ==
    [mRss |-> 0, mPss |-> 0, mSwap |-> 0, mSwapPss |-> 0, mLocked |-> 0,
     mPrivateClean |-> 0, mPrivateDirty |-> 0, mSize |-> 0]

\* strtol(c, nullptr, 10): white space, then digits up to the first other character
RECURSIVE strtolDigits(_, _)
strtolDigits(chars, acc) ==
    IF chars = <<>> \/ ~(\E d \in DOMAIN Digits : Digits[d] = Head(chars)) THEN acc
    ELSE strtolDigits(Tail(chars),
                      10 * acc + (CHOOSE d \in DOMAIN Digits : Digits[d] = Head(chars)) - 1)

RECURSIVE strtol(_)
strtol(chars) ==
    IF chars # <<>> /\ Head(chars) \in {" ", "\t"} THEN strtol(Tail(chars))
    ELSE strtolDigits(chars, 0)

\* the member a key is added to; the keys compared with strncmp
SmapsMember ==
    [name \in {"Pss", "Private_Clean", "Private_Dirty", "Swap", "SwapPss", "Size", "Rss", "Locked"} |->
        CASE name = "Pss" -> "mPss"
          [] name = "Private_Clean" -> "mPrivateClean"
          [] name = "Private_Dirty" -> "mPrivateDirty"
          [] name = "Swap" -> "mSwap"
          [] name = "SwapPss" -> "mSwapPss"
          [] name = "Size" -> "mSize"
          [] name = "Rss" -> "mRss"
          [] name = "Locked" -> "mLocked"]

\* Smaps::parseSmapsLine: the key must end in ':' and be followed by something
parseSmapsLine(line) ==
    IF line.rest # <<>> /\ line.colon /\ line.name \in DOMAIN SmapsMember
    THEN <<SmapsMember[line.name], strtol(line.rest)>>
    ELSE <<"Ignore", 0>>

\* faulty variant: every line replaces the member
SmapsAssign(o, entry) ==
    IF entry[1] = "Ignore" THEN o ELSE [o EXCEPT ![entry[1]] = entry[2]]

\* parseSmaps: mPss += entry.second, ...
SmapsAdd(o, entry) ==
    IF entry[1] = "Ignore" THEN o ELSE [o EXCEPT ![entry[1]] = @ + entry[2]]

\* parseSmapsRollup: mPss = entry.second, ...
SmapsSet(o, entry) ==
    IF entry[1] = "Ignore" THEN o ELSE [o EXCEPT ![entry[1]] = entry[2]]

RECURSIVE parseSmapsLines(_, _)
parseSmapsLines(o, lines) ==
    IF lines = <<>> THEN o
    ELSE parseSmapsLines(SmapsAdd(o, parseSmapsLine(Head(lines))), Tail(lines))

RECURSIVE parseRollupLines(_, _)
parseRollupLines(o, lines) ==
    IF lines = <<>> THEN o
    ELSE parseRollupLines(SmapsSet(o, parseSmapsLine(Head(lines))), Tail(lines))

\* Smaps::parseSmaps on a new object
parseSmaps ==
    /\ smapsFull = <<>>
    /\ smapsFull' = <<parseSmapsLines(SmapsDefaults, procSmaps.smaps)>>
    /\ UNCHANGED <<monoNow, wallSkew, stdCvClock, procfs, mQuit, mLock, thread,
                   mMeasurements, memoryPoints, spurious,
                   accumulator, meminfo, memInfo, buddyinfo, mMemoryFragmentation,
                   fragPasses, fault, cmaDir, mCmaMeasurements, mCmaFree, mCmaBorrowed,
                   cmaPasses, procSmaps, smapsRollup>>
    /\ unchangedMain /\ unchangedCaller

\* Smaps::parseSmapsRollup on a new object
parseSmapsRollup ==
    /\ smapsRollup = <<>>
    /\ smapsRollup' = <<parseRollupLines(SmapsDefaults, procSmaps.rollup)>>
    /\ UNCHANGED <<monoNow, wallSkew, stdCvClock, procfs, mQuit, mLock, thread,
                   mMeasurements, memoryPoints, spurious,
                   accumulator, meminfo, memInfo, buddyinfo, mMemoryFragmentation,
                   fragPasses, fault, cmaDir, mCmaMeasurements, mCmaFree, mCmaBorrowed,
                   cmaPasses, procSmaps, smapsFull>>
    /\ unchangedMain /\ unchangedCaller

InitParsers ==
    /\ accumulator = NoAccumulator
    /\ meminfo = Unreadable
    /\ memInfo = NoMemInfo
    /\ buddyinfo = <<>>
    /\ mMemoryFragmentation = <<>>
    /\ fragPasses = 0
    /\ fault = "none"
    /\ cmaDir = NoCmaDir
    /\ mCmaMeasurements = <<>>
    /\ mCmaFree = NoAccumulator
    /\ mCmaBorrowed = NoAccumulator
    /\ cmaPasses = 0
    /\ procSmaps = NoSmapsFiles
    /\ smapsFull = <<>>
    /\ smapsRollup = <<>>

(***************************************************************************)
(* Spec: the metric API driven by a caller that may call it in any order   *)
(***************************************************************************)
InitMetrics(callees, measurements) ==
    /\ mQuit = [m \in Metrics |-> FALSE]
    /\ mLock = [m \in Metrics |-> 0]
    /\ mCollectionThread = [m \in Metrics |-> 0]
    /\ thread = [m \in Metrics |-> [w \in Workers |-> NoThread]]
    /\ mMeasurements \in measurements
    /\ memoryPoints = [f \in CollectorNames |-> 0]
    /\ caller = Idle
    /\ starts = [m \in Metrics |-> 0]
    /\ spurious = 0
    /\ terminated = FALSE
    /\ hist \in [metric : callees,
                 stopped : {[m \in Metrics |-> FALSE]},
                 doubleStart : {[m \in Metrics |-> FALSE]},
                 saved : {[m \in Metrics |-> FALSE]}]

\* without a jump of the wall clock the two clocks of a build agree
InitEnv(clocks) ==
    /\ monoNow = 0
    /\ wallSkew = 0
    /\ stdCvClock \in clocks
    /\ procfs = InitialProcfs

InitMainIdle ==
    /\ gEarlyTermination = FALSE
    /\ gStop = [waiting |-> FALSE, deadline |-> 0, waitStart |-> 0, wake |-> "none"]
    /\ signals = 0

Init ==
    /\ InitEnv({"monotonic"})
    /\ InitMetrics(Metrics, {{}})
    /\ InitMainIdle
    /\ InitParsers
    /\ mainPc = "api"

\* the caller works on one metric object, hist.metric
ApiStart == StartCollection(hist.metric) /\ UNCHANGED mainPc
ApiStop == StopCollection(hist.metric) /\ UNCHANGED mainPc

Worker ==
    \E w \in Workers :
        \/ ProcessEnumerate(w)
        \/ ProcessConstruct(w)
        \/ ProcessReadSmaps(w)
        \/ ProcessRecord(w)
        \/ ProcessUpdateAlive(w)
        \/ MemoryCollect(w)
        \/ \E m \in Metrics :
              \/ WorkerLock(m, w)
              \/ WaitFor(m, w)
              \/ WaitTimeout(m, w)
              \/ WaitSpurious(m, w)
              \/ WaitRelock(m, w)
              \/ LoopCondition(m, w)

Next ==
    \/ ApiStart
    \/ StartAssign
    \/ ApiStop
    \/ StopNotify
    \/ StopJoin
    \/ Worker
    \/ Tick
    \/ ProcessExit

Spec == Init /\ [][Next]_vars

(***************************************************************************)
(* SpecMain: main() from the installation of the signal handlers on        *)
(***************************************************************************)
\* faulty variant: the results are saved before collection is stopped
mainNextSavesFirst(pc) ==
    CASE pc = "start_process" -> "start_memory"
      [] pc = "start_memory"  -> "wait_for"
      [] pc = "wait_for"      -> "waiting"
      [] pc = "waiting"       -> "save_process"
      [] pc = "save_process"  -> "save_memory"
      [] pc = "save_memory"   -> "stop_process"
      [] pc = "stop_process"  -> "stop_memory"
      [] pc = "stop_memory"   -> "report"
      [] OTHER                -> "report"

\* main: the statement after each of its calls
mainNext(pc) ==
    CASE pc = "start_process" -> "start_memory"
      [] pc = "start_memory"  -> "wait_for"
      [] pc = "wait_for"      -> "waiting"
      [] pc = "waiting"       -> "stop_process"
      [] pc = "stop_process"  -> "stop_memory"
      [] pc = "stop_memory"   -> "save_process"
      [] pc = "save_process"  -> "save_memory"
      [] pc = "save_memory"   -> "report"
      [] OTHER                -> "report"

\* processMetric.StartCollection(std::chrono::seconds(3))
MainStartProcess ==
    /\ mainPc = "start_process"
    /\ StartCollection("ProcessMetric")
    /\ mainPc' = mainNext(mainPc)

\* memoryMetric.StartCollection(std::chrono::seconds(3))
MainStartMemory ==
    /\ mainPc = "start_memory"
    /\ StartCollection("MemoryMetric")
    /\ mainPc' = mainNext(mainPc)

unchangedMetrics ==
    UNCHANGED <<mQuit, mLock, mCollectionThread, thread, mMeasurements, memoryPoints,
                caller, starts, terminated, hist>>

\* std::unique_lock<std::mutex> locker(gLock); gStop.wait_for(locker, seconds(gDuration))
MainWaitFor ==
    /\ mainPc = "wait_for"
    /\ caller.pc = "idle"
    /\ gStop' = [waiting |-> TRUE, deadline |-> calcTimeoutAbs(Duration),
                 waitStart |-> monoNow, wake |-> "none"]
    /\ mainPc' = mainNext(mainPc)
    /\ UNCHANGED <<gEarlyTermination, signals, spurious>>
    /\ unchangedEnv /\ unchangedMetrics

\* gStop.wait_for returns std::cv_status::timeout
MainWaitTimeout ==
    /\ mainPc = "waiting"
    /\ gStopTimedOut
    /\ gStop' = [gStop EXCEPT !.waiting = FALSE, !.wake = "timeout"]
    /\ mainPc' = mainNext(mainPc)
    /\ UNCHANGED <<gEarlyTermination, signals, spurious>>
    /\ unchangedEnv /\ unchangedMetrics

\* pthread_cond_timedwait returns 0 without a notification
MainWaitSpurious ==
    /\ mainPc = "waiting"
    /\ spurious < MaxSpurious
    /\ spurious' = spurious + 1
    /\ gStop' = [gStop EXCEPT !.waiting = FALSE, !.wake = "spurious"]
    /\ mainPc' = mainNext(mainPc)
    /\ UNCHANGED <<gEarlyTermination, signals>>
    /\ unchangedEnv /\ unchangedMetrics

\* signalHandler, on SIGTERM or SIGINT: gEarlyTermination = true; gStop.notify_all()
signalHandler ==
    /\ mainPc # "report"
    /\ ~terminated
    /\ signals < MaxSignals
    /\ signals' = signals + 1
    /\ gEarlyTermination' = TRUE
    /\ IF gStop.waiting
       THEN /\ gStop' = [gStop EXCEPT !.waiting = FALSE, !.wake = "notify"]
            /\ mainPc' = mainNext(mainPc)
       ELSE UNCHANGED <<gStop, mainPc>>
    /\ UNCHANGED spurious
    /\ unchangedEnv /\ unchangedMetrics

\* processMetric.StopCollection()
MainStopProcess ==
    /\ mainPc = "stop_process"
    /\ StopCollection("ProcessMetric")
    /\ mainPc' = mainNext(mainPc)

\* memoryMetric.StopCollection()
MainStopMemory ==
    /\ mainPc = "stop_memory"
    /\ StopCollection("MemoryMetric")
    /\ mainPc' = mainNext(mainPc)

\* processMetric.SaveResults()
MainSaveProcess ==
    /\ mainPc = "save_process"
    /\ SaveResults("ProcessMetric")
    /\ mainPc' = mainNext(mainPc)

\* memoryMetric.SaveResults()
MainSaveMemory ==
    /\ mainPc = "save_memory"
    /\ SaveResults("MemoryMetric")
    /\ mainPc' = mainNext(mainPc)

InitMain ==
    /\ InitEnv({"monotonic"})
    /\ InitMetrics({"main"}, {{}})
    /\ InitMainIdle
    /\ InitParsers
    /\ mainPc = "start_process"

NextMain ==
    \/ MainStartProcess
    \/ MainStartMemory
    \/ MainWaitFor
    \/ MainWaitTimeout
    \/ MainWaitSpurious
    \/ signalHandler
    \/ MainStopProcess
    \/ MainStopMemory
    \/ MainSaveProcess
    \/ MainSaveMemory
    \/ StartAssign
    \/ StopNotify
    \/ StopJoin
    \/ Worker
    \/ Tick

SpecMain == InitMain /\ [][NextMain]_vars

(***************************************************************************)
(* SpecClock: a metric is started and collects while the wall clock is set *)
(***************************************************************************)
InitClock ==
    /\ InitEnv(Clocks)
    /\ InitMetrics(Metrics, {{}})
    /\ InitMainIdle
    /\ InitParsers
    /\ mainPc = "api"

NextClock ==
    \/ ApiStart
    \/ StartAssign
    \/ Worker
    \/ Tick
    \/ WallClockJump

SpecClock == InitClock /\ [][NextClock]_vars

(***************************************************************************)
(* SpecDedup: SaveResults of ProcessMetric on the result sets a stopped    *)
(* collection can leave                                                    *)
(***************************************************************************)
MaxEntries == 4

DedupCmdlines == {"sleep 10", "sh run.sh"}
DedupPpids == {1, 2}
\* the kB sampled for a pid: entries of odd pids tie, and so do entries of even pids
DedupPss(pid) == 10 * (1 + (pid % 2))

\* the sample Procrank gives of a process whose memory figures are all kb
DedupSample(process, kb) ==
    [process |-> process, vss |-> kb, rss |-> kb, pss |-> kb, uss |-> kb, locked |-> 0,
     swap |-> 0, swap_pss |-> 0, swap_zram |-> 0]

\* the entry CollectData has made of a process when collection stops: pids 1 and 2 were
\* sampled once, later pids three times, the last sample one kB higher (an average a
\* third of a kB above that of a pid sampled once)
DedupEntry(pid, ppid, cmdline, dead) ==
    LET P == [mPid |-> pid, mPpid |-> ppid, mName |-> cmdline, mCmdline |-> cmdline,
              mDead |-> dead]
        first == processMeasurement(DedupSample(P, DedupPss(pid)))
    IN  IF pid <= 2 THEN first
        ELSE AddSample(AddSample(first, DedupSample(P, DedupPss(pid))),
                       DedupSample(P, DedupPss(pid) + 1))

\* one entry per pid: no two entries of a result set are equal under Process::operator==
DedupInputs(n) ==
    LET choices == [1..n -> DedupPpids \X DedupCmdlines \X BOOLEAN]
    IN  { {DedupEntry(p, f[p][1], f[p][2], f[p][3]) : p \in 1..n} : f \in choices }

InitDedup ==
    /\ InitEnv({"monotonic"})
    /\ InitMetrics({"main"}, DedupInputs(MaxEntries))
    /\ InitMainIdle
    /\ InitParsers
    /\ mainPc = "save_process"

SpecDedup == InitDedup /\ [][MainSaveProcess]_vars

(***************************************************************************)
(* SpecReuse: one collection of ProcessMetric, started once, while         *)
(* processes exit and start; then StopCollection and SaveResults.  Waits   *)
(* end by the stop notification or spuriously.                             *)
(***************************************************************************)
InitReuse ==
    /\ InitEnv({"monotonic"})
    /\ InitMetrics({"ProcessMetric"}, {{}})
    /\ InitMainIdle
    /\ InitParsers
    /\ mainPc = "api"

ReuseStart == starts[hist.metric] = 0 /\ ApiStart

ReuseStop == (starts[hist.metric] > 0 /\ ~hist.stopped[hist.metric]) /\ ApiStop

ReuseSave == hist.stopped[hist.metric] /\ SaveResults(hist.metric) /\ UNCHANGED mainPc

ReuseSteps ==
    \/ ReuseStart
    \/ StartAssign
    \/ ReuseStop
    \/ StopNotify
    \/ StopJoin
    \/ ReuseSave
    \/ \E w \in Workers :
          \/ WorkerLock(hist.metric, w)
          \/ ProcessEnumerate(w)
          \/ ProcessConstruct(w)
          \/ ProcessReadSmaps(w)
          \/ ProcessRecord(w)
          \/ ProcessUpdateAlive(w)
          \/ WaitFor(hist.metric, w)
          \/ WaitSpurious(hist.metric, w)
          \/ WaitRelock(hist.metric, w)
          \/ LoopCondition(hist.metric, w)
    \/ ProcessExit

\* the processes started during the run are further "sleep 10"
NextReuse ==
    \/ ReuseSteps
    \/ ProcessStart({SleepProc})

SpecReuse == InitReuse /\ [][NextReuse]_vars

(***************************************************************************)
(* SpecExec: as SpecReuse, but the processes started during the run are    *)
(* "cat": a pid comes back with another cmdline                            *)
(***************************************************************************)
NextExec ==
    \/ ReuseSteps
    \/ ProcessStart({CatProc})

SpecExec == InitReuse /\ [][NextExec]_vars

(***************************************************************************)
(* SpecMeasurement: data points added to one Measurement                   *)
(***************************************************************************)
InitIdle ==
    /\ InitEnv({"monotonic"})
    /\ InitMetrics({"main"}, {{}})
    /\ InitMainIdle
    /\ mainPc = "api"

\* an empty Measurement
InitMeasurement == InitIdle /\ InitParsers

SpecMeasurement == InitMeasurement /\ [][MeasurementAdd]_vars

(***************************************************************************)
(* SpecMemInfo: a MemInfo is constructed from a meminfo file               *)
(***************************************************************************)
InitMemInfo ==
    /\ InitIdle
    /\ accumulator = NoAccumulator
    /\ meminfo \in {<<file>> : file \in MemInfoFiles} \cup {Unreadable}
    /\ memInfo = NoMemInfo
    /\ buddyinfo = <<>>
    /\ mMemoryFragmentation = <<>>
    /\ fragPasses = 0
    /\ fault = "none"
    /\ cmaDir = NoCmaDir
    /\ mCmaMeasurements = <<>>
    /\ mCmaFree = NoAccumulator
    /\ mCmaBorrowed = NoAccumulator
    /\ cmaPasses = 0
    /\ procSmaps = NoSmapsFiles
    /\ smapsFull = <<>>
    /\ smapsRollup = <<>>

SpecMemInfo == InitMemInfo /\ [][MemInfoConstruct]_vars

(***************************************************************************)
(* SpecFrag: collection passes over one buddyinfo file                     *)
(***************************************************************************)
InitFrag ==
    /\ InitIdle
    /\ accumulator = NoAccumulator
    /\ meminfo = Unreadable
    /\ memInfo = NoMemInfo
    /\ buddyinfo \in {<<line>> : line \in BuddyLines} \cup {<<>>}
    /\ mMemoryFragmentation = <<>>
    /\ fragPasses = 0
    /\ fault = "none"
    /\ cmaDir = NoCmaDir
    /\ mCmaMeasurements = <<>>
    /\ mCmaFree = NoAccumulator
    /\ mCmaBorrowed = NoAccumulator
    /\ cmaPasses = 0
    /\ procSmaps = NoSmapsFiles
    /\ smapsFull = <<>>
    /\ smapsRollup = <<>>

SpecFrag == InitFrag /\ [][CalculateFragmentation]_vars

(***************************************************************************)
(* SpecZones: collection passes over buddyinfo files of several lines      *)
(***************************************************************************)
InitZones ==
    /\ InitIdle
    /\ accumulator = NoAccumulator
    /\ meminfo = Unreadable
    /\ memInfo = NoMemInfo
    /\ buddyinfo \in UNION {[1..k -> ZoneLines] : k \in 1..MaxLines}
    /\ mMemoryFragmentation = <<>>
    /\ fragPasses = 0
    /\ fault = "none"
    /\ cmaDir = NoCmaDir
    /\ mCmaMeasurements = <<>>
    /\ mCmaFree = NoAccumulator
    /\ mCmaBorrowed = NoAccumulator
    /\ cmaPasses = 0
    /\ procSmaps = NoSmapsFiles
    /\ smapsFull = <<>>
    /\ smapsRollup = <<>>

SpecZones == InitZones /\ [][CalculateFragmentation]_vars

(***************************************************************************)
(* SpecCma: collection passes over one CMA debug directory                 *)
(***************************************************************************)
InitCma ==
    /\ InitIdle
    /\ accumulator = NoAccumulator
    /\ meminfo \in CmaMemInfoFiles \cup {Unreadable}
    /\ memInfo = NoMemInfo
    /\ buddyinfo = <<>>
    /\ mMemoryFragmentation = <<>>
    /\ fragPasses = 0
    /\ fault = "none"
    /\ cmaDir \in CmaDirs \cup {NoCmaDir}
    /\ mCmaMeasurements = <<>>
    /\ mCmaFree = NoAccumulator
    /\ mCmaBorrowed = NoAccumulator
    /\ cmaPasses = 0
    /\ procSmaps = NoSmapsFiles
    /\ smapsFull = <<>>
    /\ smapsRollup = <<>>

SpecCma == InitCma /\ [][GetCmaMemoryUsage]_vars

(***************************************************************************)
(* SpecSmaps: both parsers applied to the files of one process             *)
(***************************************************************************)
InitSmaps ==
    /\ InitIdle
    /\ accumulator = NoAccumulator
    /\ meminfo = Unreadable
    /\ memInfo = NoMemInfo
    /\ buddyinfo = <<>>
    /\ mMemoryFragmentation = <<>>
    /\ fragPasses = 0
    /\ fault = "none"
    /\ cmaDir = NoCmaDir
    /\ mCmaMeasurements = <<>>
    /\ mCmaFree = NoAccumulator
    /\ mCmaBorrowed = NoAccumulator
    /\ cmaPasses = 0
    /\ procSmaps \in SmapsFiles(MaxBlocks)
    /\ smapsFull = <<>>
    /\ smapsRollup = <<>>

NextSmaps == parseSmaps \/ parseSmapsRollup

SpecSmaps == InitSmaps /\ [][NextSmaps]_vars

(***************************************************************************)
(* Claims                                                                  *)
(***************************************************************************)
Live(m, w) == thread[m][w].pc \notin {"none", "done"}

\* the result maps of a metric
Results(m) == IF m = "ProcessMetric" THEN <<mMeasurements>> ELSE <<memoryPoints>>

\* the result maps are as the constructor left them
NoResults(m) ==
    IF m = "ProcessMetric" THEN mMeasurements = {}
    ELSE memoryPoints = [f \in CollectorNames |-> 0]

\* C1: when StopCollection sets the flag and notifies while a worker is blocked in its
\* timed wait, that very step wakes the worker, whatever is left of the period; a worker
\* woken by the notification only takes the lock again, reads the flag and exits: it
\* starts no other pass.
C1_StopWakesWaitingWorker ==
    [][\A m \in Metrics : \A w \in Workers :
          /\ (/\ caller.pc = "stop_lock" /\ caller'.pc = "stop_join" /\ caller.metric = m
              /\ thread[m][w].pc = "waiting")
             => (thread'[m][w].pc = "woken" /\ thread'[m][w].wake = "notify" /\ mQuit'[m])
          /\ (thread[m][w].wake = "notify" /\ thread'[m][w] # thread[m][w])
             => \/ thread[m][w].pc = "woken" /\ thread'[m][w].pc = "check"
                \/ thread[m][w].pc = "check" /\ thread'[m][w].pc = "done"]_vars

\* C1 witness: a worker woken by StopCollection's notification before its period is over
C1_Witness ==
    \E m \in Metrics : \E w \in Workers :
        /\ thread[m][w].pc = "woken"
        /\ thread[m][w].wake = "notify"
        /\ monoNow < thread[m][w].waitStart + Frequency

\* C2: while StopCollection, having set the flag and notified, waits to join, no worker
\* of the metric is blocked in the timed wait (which it could then leave only by sitting
\* out the period).
C2_NoWaitAfterStop ==
    \A m \in Metrics : \A w \in Workers :
        (caller.pc = "stop_join" /\ caller.metric = m) => thread[m][w].pc # "waiting"

\* C3: a worker in a pass stays in it until it enters the wait with every data point of the
\* pass recorded; the stop flag is never set while a pass runs; a worker exits only from the
\* loop condition.
C3_PassCompletes ==
    /\ [](\A m \in Metrics : \A w \in Workers :
            thread[m][w].pc \in {"wait_for", "waiting", "woken", "check", "done"}
                => /\ thread[m][w].pids = {}
                   /\ thread[m][w].processMemory = <<>>)
    /\ [][\A m \in Metrics : \A w \in Workers :
            /\ InPass(m, w) => thread'[m][w].pc \in PassPcs \cup {"waiting"}
            /\ (InPass(m, w) /\ thread'[m][w].pc = "waiting") => thread[m][w].pc = "wait_for"
            /\ InPass(m, w) => mQuit'[m] = mQuit[m]
            /\ (thread'[m][w].pc = "done" /\ thread[m][w].pc # "done")
                  => thread[m][w].pc = "check"]_vars

\* C3 witness: StopCollection has been called and blocks while a pass has samples to record
C3_Witness ==
    \E m \in Metrics : \E w \in Workers :
        /\ caller.pc = "stop_lock" /\ caller.metric = m
        /\ thread[m][w].pc = "record"

\* C4: once StopCollection has returned (and until the next StartCollection) every worker
\* of the metric has exited, and the result maps do not change.
C4_StopJoinsWorker ==
    /\ [](\A m \in Metrics : hist.stopped[m] => \A w \in Workers : ~Live(m, w))
    /\ [][\A m \in Metrics :
            (hist.stopped[m] /\ hist.stopped'[m]) => Results(m)' = Results(m)]_vars

\* C4 witness: StopCollection has returned from joining a worker that recorded data
C4_Witness ==
    \E m \in Metrics :
        /\ hist.stopped[m]
        /\ thread[m][1].pc = "done"
        /\ ~NoResults(m)

\* C5 as stated: no pass runs while another worker of the metric is in a pass or in the
\* wait that follows it, whatever the calls made
C5_OnePassOneWorker ==
    \A m \in Metrics : \A w1, w2 \in Workers :
        (w1 # w2 /\ InPass(m, w1)) => ~(InPass(m, w2) \/ thread[m][w2].pc \in {"waiting", "woken", "check"})

\* C5 amended: every StartCollection spawns exactly one worker; at most one worker is ever
\* inside a pass; and as long as StartCollection has not been called on a metric whose
\* thread is still joinable, at most one worker of the metric is alive.
C5_OnePassInFlight ==
    \A m \in Metrics :
        /\ Cardinality({w \in Workers : thread[m][w].pc # "none"}) = starts[m]
        /\ Cardinality({w \in Workers : InPass(m, w) \/ thread[m][w].pc = "check"}) <= 1
        /\ ~hist.doubleStart[m] => Cardinality({w \in Workers : Live(m, w)}) <= 1

\* C5 witness: a second worker is kept out of the result set while the first is in a pass
C5_Witness ==
    \E m \in Metrics : \E w1, w2 \in Workers :
        /\ w1 # w2
        /\ InPass(m, w1)
        /\ thread[m][w2].pc \in {"spawned", "woken"}

\* C6: StopCollection on a metric that was never started never blocks: its lock is free,
\* it joins nothing, and it leaves the flag set and the result maps as constructed.
C6_StopNeverStarted ==
    \A m \in Metrics :
        (starts[m] = 0 /\ caller.metric = m) =>
            /\ caller.pc = "stop_lock" => ENABLED StopNotify
            /\ caller.pc = "stop_join" => (mQuit[m] /\ ~joinable(m) /\ ENABLED StopJoin)
            /\ hist.stopped[m] => mQuit[m]
            /\ NoResults(m)
            /\ \A w \in Workers : thread[m][w] = NoThread

\* C6 witness: StopCollection has returned on a metric never started
C6_Witness ==
    \E m \in Metrics : starts[m] = 0 /\ hist.stopped[m] /\ caller.pc = "idle"

\* C7: SaveResults of a metric is called only once StopCollection of that metric has
\* returned and every worker of the metric has exited; no worker of a metric whose results
\* were saved is alive.
C7_SaveAfterStop ==
    /\ [](\A m \in Metrics : hist.saved[m] => (hist.stopped[m] /\ \A w \in Workers : ~Live(m, w)))
    /\ [][\A m \in Metrics :
            (hist.saved'[m] /\ ~hist.saved[m])
                => (hist.stopped[m] /\ caller.pc = "idle" /\ \A w \in Workers : ~Live(m, w))]_vars

\* C7 witness: the results of both metrics are saved, their workers having recorded data
C7_Witness ==
    /\ mainPc = "report"
    /\ \A m \in Metrics : hist.saved[m] /\ thread[m][1].pc = "done" /\ ~NoResults(m)

\* C8: once a signal has been delivered main is not blocked in its timed wait, and when no
\* signal has been delivered main is past the wait only if the duration has elapsed.
C8_SignalOrDuration ==
    /\ gEarlyTermination => mainPc # "waiting"
    /\ (/\ mainPc \in {"stop_process", "stop_memory", "save_process", "save_memory", "report"}
        /\ signals = 0) => monoNow >= gStop.waitStart + Duration

\* C9: a worker's timed wait times out exactly when the period has passed on the
\* monotonic clock, whatever the wall clock did meanwhile: a worker woken by the timeout
\* has waited the period, and a worker that has waited the period is due.
C9_WaitIsMonotonic ==
    \A m \in Metrics : \A w \in Workers :
        /\ (thread[m][w].pc = "woken" /\ thread[m][w].wake = "timeout")
              => monoNow >= thread[m][w].waitStart + Frequency
        /\ (thread[m][w].pc = "waiting" /\ monoNow >= thread[m][w].waitStart + Frequency)
              => StdWaitTimedOut(thread[m][w])

\* the dead entries of a result set that share cmdline and parent pid with e
DeadGroup(meas, e) == {x \in meas : IsDuplicateOf(x, e)}

\* C10: DeduplicateData leaves exactly one member of every group of more than one dead
\* entries with the same (cmdline, parent pid), and leaves a dead entry that is alone in
\* its group.
C10_OneSurvivorPerGroup ==
    [][(hist.saved'["ProcessMetric"] /\ ~hist.saved["ProcessMetric"]) =>
          \A e \in mMeasurements :
              e.ProcessInfo.mDead =>
                  IF Cardinality(DeadGroup(mMeasurements, e)) > 1
                  THEN Cardinality(DeadGroup(mMeasurements, e) \cap mMeasurements') = 1
                  ELSE e \in mMeasurements']_vars

\* C11: of a group of more than one dead entries with the same (cmdline, parent pid), a
\* member DeduplicateData leaves has the highest average PSS of the group, also when the
\* averages (mTotal / mCount, compared exactly) differ by less than 1 kB.
C11_SurvivorHasHighestAverage ==
    [][(hist.saved'["ProcessMetric"] /\ ~hist.saved["ProcessMetric"]) =>
          \A e \in mMeasurements :
              (e.ProcessInfo.mDead /\ Cardinality(DeadGroup(mMeasurements, e)) > 1) =>
                  \A s \in DeadGroup(mMeasurements, e) \cap mMeasurements' :
                      \A x \in DeadGroup(mMeasurements, e) :
                          ~(s.Pss.mTotal * x.Pss.mCount < x.Pss.mTotal * s.Pss.mCount)]_vars

\* the entry is that of a process running now: /proc has its pid with its cmdline
RunningNow(e) ==
    /\ procfs[e.ProcessInfo.mPid] # NoProc
    /\ procfs[e.ProcessInfo.mPid].cmdline = e.ProcessInfo.mCmdline

\* C12: when StopCollection returns, no result DeduplicateData can make of the result
\* set lacks the entry of a process that is running at that moment, whatever processes
\* exited and started during the run.
C12_AliveNeverDeduplicated ==
    [][(hist.stopped'["ProcessMetric"] /\ ~hist.stopped["ProcessMetric"]) =>
          \A e \in mMeasurements' :
              RunningNow(e)' => \A after \in DeduplicateData(mMeasurements') : e \in after]_vars

\* C13: an entry flagged dead stays flagged dead for as long as it is in the result set,
\* whatever /proc shows of its pid later, and updateAliveStatus leaves a dead identity as
\* it is.
C13_DeadStaysDead ==
    /\ [](\A e \in mMeasurements :
            e.ProcessInfo.mDead => updateAliveStatus(e.ProcessInfo) = e.ProcessInfo)
    /\ [][\A e \in mMeasurements :
            (e.ProcessInfo.mDead /\ hist.saved' = hist.saved) =>
                \E x \in mMeasurements' : x.ProcessInfo = e.ProcessInfo]_vars

\* a dead entry whose pid runs again with the same cmdline has been sampled again and has
\* been through the refresh of the alive flags
C13_Witness ==
    \E w \in Workers : \E e \in mMeasurements :
        /\ thread["ProcessMetric"][w].pc = "wait_for"
        /\ e.ProcessInfo.mDead
        /\ RunningNow(e)
        /\ e.Pss.mCount >= 2

\* pid, parent pid, name and cmdline of an entry
Identity(e) ==
    <<e.ProcessInfo.mPid, e.ProcessInfo.mPpid, e.ProcessInfo.mName, e.ProcessInfo.mCmdline>>

\* C14: a step other than SaveResults removes no entry of the result set and changes no
\* entry's pid, parent pid, name or cmdline, and takes no data point away: every entry
\* has a successor with the same identity and at least as many data points.
C14_EntriesOnlyGrow ==
    [][hist.saved' = hist.saved =>
          \A e \in mMeasurements :
              \E x \in mMeasurements' :
                  /\ Identity(x) = Identity(e)
                  /\ x.Pss.mCount >= e.Pss.mCount
                  /\ \A y \in mMeasurements' : Identity(y) = Identity(e) => y = x]_vars

\* a second pass has added a data point to an entry, an entry has been found dead, and
\* an entry has been added for a process started during the run
C14_Witness ==
    /\ ~hist.saved["ProcessMetric"]
    /\ Cardinality(mMeasurements) = 3
    /\ \E e \in mMeasurements : e.ProcessInfo.mDead
    /\ \E e \in mMeasurements : e.Pss.mCount >= 2
    /\ \E e \in mMeasurements : e.ProcessInfo.mPid = 3

\* the entries with the pid and the cmdline of the sample u
SamePidAndCmdline(meas, u) ==
    {e \in meas : /\ e.ProcessInfo.mPid = u.process.mPid
                  /\ e.ProcessInfo.mCmdline = u.process.mCmdline}

\* C15: CollectData adds the data points of a sample to the one entry that has both the
\* pid and the cmdline of the sample; when no entry has both (also when an entry has the
\* pid with another cmdline), it adds a new entry for the sample and leaves the others.
C15_IdentityIsPidAndCmdline ==
    [][\A w \in Workers :
          LET t == thread["ProcessMetric"][w]
              u == Head(t.processMemory)
              same == SamePidAndCmdline(mMeasurements, u)
          IN  (t.pc = "record" /\ thread'["ProcessMetric"][w] # t) =>
                  IF same = {}
                  THEN /\ processMeasurement(u) \notin mMeasurements
                       /\ mMeasurements' = mMeasurements \cup {processMeasurement(u)}
                  ELSE /\ Cardinality(same) = 1
                       /\ \E e \in same :
                             mMeasurements' = (mMeasurements \ {e}) \cup {AddSample(e, u)}]_vars

\* the result set holds two entries with the same pid and different cmdlines
C15_Witness ==
    \E e1 \in mMeasurements : \E e2 \in mMeasurements :
        /\ e1.ProcessInfo.mPid = e2.ProcessInfo.mPid
        /\ e1.ProcessInfo.mCmdline # e2.ProcessInfo.mCmdline

\* C16: a process that exits during the reads of its pid is skipped: GetMemoryUsage hands
\* no all-zero sample to CollectData, and no entry of the result set holds an all-zero
\* data point (a running process has a non-zero Vss and Rss).
C16_ExitedProcessSkipped ==
    /\ \A w \in Workers :
          LET usage == thread["ProcessMetric"][w].processMemory
          IN  \A i \in 1..Len(usage) : ~(usage[i].vss = 0 /\ usage[i].rss = 0 /\ usage[i].pss = 0 /\ usage[i].uss = 0)
    /\ \A e \in mMeasurements : e.Vss.mMin >= 1 /\ e.Rss.mMin >= 1

RECURSIVE SumOf(_)
\* the sum of the values of a sequence
SumOf(values) == IF values = <<>> THEN 0 ELSE Head(values) + SumOf(Tail(values))

C18_UsedOfReadableFile ==
    memInfo # NoMemInfo =>
        IF meminfo = Unreadable THEN memInfo[1] = MemInfoDefaults
        ELSE memInfo[1].mUsed
                = meminfo[1].MemTotal
                    - (meminfo[1].MemFree + meminfo[1].Buffers + meminfo[1].Cached + meminfo[1].SReclaimable)

\* C18, amended: the same for the readable files whose total is not below
\* free + buffers + cached + slab; of an unreadable file every field stays zero.
C18_UsedOfConsistentFile ==
    memInfo # NoMemInfo =>
        IF meminfo = Unreadable THEN memInfo[1] = MemInfoDefaults
        ELSE (meminfo[1].MemTotal
                >= meminfo[1].MemFree + meminfo[1].Buffers + meminfo[1].Cached + meminfo[1].Slab) =>
                 memInfo[1].mUsed
                   = meminfo[1].MemTotal
                       - (meminfo[1].MemFree + meminfo[1].Buffers + meminfo[1].Cached
                            + meminfo[1].SReclaimable)

\* MemTotal 1000, MemFree 200, Buffers 50, Cached 100, Slab 0 has given Used 650
C18_Witness ==
    /\ memInfo # NoMemInfo /\ meminfo # Unreadable
    /\ meminfo[1].MemTotal = 1000 /\ meminfo[1].MemFree = 200 /\ meminfo[1].Buffers = 50
    /\ meminfo[1].Cached = 100 /\ meminfo[1].Slab = 0
    /\ memInfo[1].mUsed = 650

\* C19: of a file with total < free + buffers + cached + slab the MemInfo object is the
\* defaulted one: every field is zero.
C19_CorruptReadIsDefaulted ==
    (memInfo # NoMemInfo /\ meminfo # Unreadable
       /\ meminfo[1].MemTotal < meminfo[1].MemFree + meminfo[1].Buffers + meminfo[1].Cached + meminfo[1].Slab)
        => memInfo[1] = MemInfoDefaults

\* the sum over the orders j >= i of 2^j * a[j]
RECURSIVE SumFromOrder(_, _)
SumFromOrder(a, i) ==
    IF i >= Len(a) THEN 0 ELSE (2 ^ i) * a[i + 1] + SumFromOrder(a, i + 1)

\* the value a fragmentation data point holds is the number num / den
IsValue(f, num, den) == f.den # 0 /\ den # 0 /\ f.num * den = num * f.den

\* C20: of a zone line with free counts a[0..n] the fragmentation computed for order i is
\* (total - sum over j >= i of 2^j * a[j]) / total with total the sum over all orders of
\* 2^order * a[order]; fragmentation[0] is 0, and for counts [100,50,10,0] fragmentation[3] is 1.
C20_FragmentationFormula ==
    (fragPasses = 1 /\ buddyinfo # <<>> /\ segmentsSize(buddyinfo[1]) = columnCount) =>
        LET a == buddyinfo[1].counts
            total == SumFromOrder(a, 0)
            computed == mMemoryFragmentation[buddyinfo[1].zone]
        IN  /\ \A i \in 0..(Len(a) - 1) :
                  IsValue(computed[i + 1].Fragmentation[1], total - SumFromOrder(a, i), total)
            /\ IsValue(computed[1].Fragmentation[1], 0, 1)
            /\ (SubSeq(a, 1, 4) = <<100, 50, 10, 0>> /\ total = 240)
                  => IsValue(computed[4].Fragmentation[1], 1, 1)

\* C21: a pass over a buddyinfo file leaves the process running, adds nothing for a line
\* whose number of segments differs from the column count (lines of fewer than four
\* segments included) and adds one data point for every other line.
C21_MismatchedLineSkipped ==
    [][fragPasses' = fragPasses + 1 =>
          /\ fault' = "none"
          /\ \A zone \in {"DMA", "Normal", ""} :
                LET points(map) ==
                        IF zone \in DOMAIN map THEN map[zone][1].FreePages.mCount ELSE 0
                    full == {k \in DOMAIN buddyinfo :
                                /\ buddyinfo[k].zone = zone
                                /\ segmentsSize(buddyinfo[k]) = columnCount}
                IN  points(mMemoryFragmentation')
                        = points(mMemoryFragmentation) + Cardinality(full)]_vars

\* C22: in a pass over a directory that holds a region without a name, every region with
\* a name still receives one Used and one Unused data point, and the free and borrowed
\* summary is still recorded.
C22_OnlyUnmappedRegionSkipped ==
    [][(cmaPasses' = cmaPasses + 1 /\ cmaDir.readable) =>
          /\ \A k \in DOMAIN cmaDir.entries :
                LET dir == cmaDir.entries[k].name
                    points(map, cmaName) ==
                        IF cmaName \in DOMAIN map
                        THEN [Used |-> map[cmaName].Used.mCount,
                              Unused |-> map[cmaName].Unused.mCount]
                        ELSE [Used |-> 0, Unused |-> 0]
                IN  dir \in DOMAIN mCmaNames =>
                       /\ points(mCmaMeasurements', mCmaNames[dir]).Used
                             = points(mCmaMeasurements, mCmaNames[dir]).Used + 1
                       /\ points(mCmaMeasurements', mCmaNames[dir]).Unused
                             = points(mCmaMeasurements, mCmaNames[dir]).Unused + 1
          /\ Len(mCmaFree'.values) = Len(mCmaFree.values) + 1
          /\ Len(mCmaBorrowed'.values) = Len(mCmaBorrowed.values) + 1]_vars

\* the sum, in kB, of the count or the used pages of the entries of the directory
RECURSIVE SumPagesKb(_, _)
SumPagesKb(entries, field) ==
    IF entries = <<>> THEN 0
    ELSE PagesKb(IF field = "count" THEN Head(entries).count ELSE Head(entries).used)
            + SumPagesKb(Tail(entries), field)

\* C27: in a pass over a readable directory (here: one whose regions all have names) the
\* value added to 'CMA Free' is the CmaFree of the meminfo file and the value added to
\* 'CMA Borrowed by Kernel' is (sum of region sizes - sum of region used) - CmaFree.
C27_CmaSummaryUsesCmaFree ==
    [][(/\ cmaPasses' = cmaPasses + 1
        /\ cmaDir.readable
        /\ \A k \in DOMAIN cmaDir.entries : cmaDir.entries[k].name \in DOMAIN mCmaNames) =>
          LET cmaFree == IF meminfo = Unreadable THEN 0 ELSE meminfo[1].CmaFree
          IN  /\ mCmaFree'.values = Append(mCmaFree.values, cmaFree)
              /\ mCmaBorrowed'.values
                    = Append(mCmaBorrowed.values,
                             (SumPagesKb(cmaDir.entries, "count")
                                - SumPagesKb(cmaDir.entries, "used")) - cmaFree)]_vars

\* C23: of the files of one process the full-file parser yields, for Pss, Rss and Swap,
\* the sum of the field over all mappings, the rollup parser yields the aggregate value,
\* and the two agree; the keys the parsers do not know change neither.
C23_RollupAgreesWithFull ==
    /\ smapsFull # <<>> =>
          \A key \in {"Pss", "Rss", "Swap"} :
              smapsFull[1][SmapsMember[key]] = BlockSum(procSmaps.blocks, key)
    /\ smapsRollup # <<>> =>
          \A key \in {"Pss", "Rss", "Swap"} :
              smapsRollup[1][SmapsMember[key]] = BlockSum(procSmaps.blocks, key)
    /\ (smapsFull # <<>> /\ smapsRollup # <<>>) =>
          /\ smapsFull[1].mPss = smapsRollup[1].mPss
          /\ smapsFull[1].mRss = smapsRollup[1].mRss
          /\ smapsFull[1].mSwap = smapsRollup[1].mSwap

\* both parsers have run on a process of two mappings with different values
C23_Witness ==
    /\ smapsFull # <<>> /\ smapsRollup # <<>>
    /\ Len(procSmaps.blocks) = 2
    /\ procSmaps.blocks[1].Rss = 12 /\ procSmaps.blocks[2].Rss = 4
    /\ procSmaps.blocks[1].Pss = 4 /\ procSmaps.blocks[2].Pss = 4
    /\ smapsFull[1].mRss = 16 /\ smapsRollup[1].mPss = 8

\* C24: a worker goes from the loop condition into its next pass only after a wait that
\* ended by the timeout, the period having passed; a wake-up that is neither a timeout nor
\* a stop notification starts no pass.
C24_NextPassAfterFullPeriod ==
    [][\A m \in Metrics : \A w \in Workers :
          (thread[m][w].pc = "check" /\ thread'[m][w].pc \in PassPcs)
              => thread[m][w].wake = "timeout"]_vars

\* C25: after at least one AddDataPoint, GetMax is the greatest and GetMin the least of the
\* values added, also when none of them is above zero.
C25_MaxAndMinOfAdded ==
    Len(accumulator.values) >= 1 =>
        LET added == {accumulator.values[i] : i \in DOMAIN accumulator.values}
        IN  /\ ~accumulator.M.mMaxInit
            /\ accumulator.M.mMax \in added
            /\ \A v \in added : v <= accumulator.M.mMax
            /\ ~accumulator.M.mMinInit
            /\ accumulator.M.mMin \in added
            /\ \A v \in added : accumulator.M.mMin <= v

\* C26: every data point of a zone's Fragmentation accumulator is the percentage
\* fragmentation[i] * 100 of the line read on that tick, the first one included (here: of a
\* zone line with at least one free page).
C26_FragmentationAlwaysPercent ==
    (/\ fragPasses >= 1
     /\ buddyinfo # <<>>
     /\ segmentsSize(buddyinfo[1]) = columnCount
     /\ SumFromOrder(buddyinfo[1].counts, 0) > 0)
    => LET a == buddyinfo[1].counts
           total == SumFromOrder(a, 0)
           recorded == mMemoryFragmentation[buddyinfo[1].zone]
       IN  \A i \in 0..(Len(a) - 1) :
               /\ Len(recorded[i + 1].Fragmentation) = fragPasses
               /\ \A tick \in 1..fragPasses :
                     IsValue(recorded[i + 1].Fragmentation[tick],
                             100 * (total - SumFromOrder(a, i)), total)

\* C28: a worker exits only from the loop condition, reaches the loop condition only out
\* of a wait, enters the wait only at the end of a pass, and after being started goes into
\* a pass whatever the stop flag is: every worker that exits has completed a pass and its
\* wait, and the flag is read nowhere else.
C28_PassBeforeExit ==
    [][\A m \in Metrics : \A w \in Workers :
          thread'[m][w].pc # thread[m][w].pc =>
              /\ thread'[m][w].pc = "done" => thread[m][w].pc = "check"
              /\ thread'[m][w].pc = "check" => thread[m][w].pc = "woken"
              /\ thread'[m][w].pc = "woken" => thread[m][w].pc = "waiting"
              /\ thread'[m][w].pc = "waiting" => thread[m][w].pc = "wait_for"
              /\ thread'[m][w].pc = "wait_for" => thread[m][w].pc = (IF m = "ProcessMetric" THEN "alive" ELSE "collect")
              /\ thread[m][w].pc = "spawned" => thread'[m][w].pc = "collect"]_vars

\* C28 witness: StopCollection, called right after StartCollection, has set the flag and
\* waits to join while the worker is in its first pass
C28_Witness ==
    \E m \in Metrics : \E w \in Workers :
        /\ caller.pc = "stop_join" /\ caller.metric = m
        /\ mQuit[m]
        /\ thread[m][w].pc = "collect"
        /\ NoResults(m)

\* C29: no two entries of the result set have the same pid and the same cmdline, and the
\* eight accumulators of an entry hold the same number of data points, at least one.
C29_UniqueIdentityEqualCounts ==
    /\ \A e, x \in mMeasurements :
          (e.ProcessInfo.mPid = x.ProcessInfo.mPid
             /\ e.ProcessInfo.mCmdline = x.ProcessInfo.mCmdline) => e = x
    /\ \A e \in mMeasurements : \A a \in {"Pss", "Rss", "Uss", "Vss", "Swap", "SwapPss", "SwapZram", "Locked"} :
          e[a].mCount >= 1 /\ e[a].mCount = e.Pss.mCount

\* C29 witness: two entries share a cmdline under different pids, two share a pid under
\* different cmdlines, and an entry has been sampled twice
C29_Witness ==
    /\ \E e, x \in mMeasurements :
          e.ProcessInfo.mCmdline = x.ProcessInfo.mCmdline /\ e.ProcessInfo.mPid # x.ProcessInfo.mPid
    /\ \E e, x \in mMeasurements :
          e.ProcessInfo.mCmdline # x.ProcessInfo.mCmdline /\ e.ProcessInfo.mPid = x.ProcessInfo.mPid
    /\ \E e \in mMeasurements : e.Locked.mCount >= 2

\* C30: a collection step changes no entry that is flagged dead: no data point of a later
\* process is added to it.
C30_DeadEntryGetsNoSamples ==
    [][hist.saved' = hist.saved =>
          \A e \in mMeasurements : e.ProcessInfo.mDead => e \in mMeasurements']_vars

====
